---- MODULE Spec2Model ----
(***************************************************************************)
(* Model of qa/rpc-tests/checkdatasig-activation.py: the comparison-test   *)
(* driver that walks a regtest chain across the Nov 15 2018 activation     *)
(* time and checks that OP_CHECKDATASIG is refused before it, accepted     *)
(* after it and refused again after a reorg below it.                      *)
(*                                                                         *)
(* The driver (get_tests and its helpers) is translated from the script.   *)
(* The node under test, the comparison framework (TestManager) and the     *)
(* helpers of test_framework are not part of the script: their behaviour   *)
(* is modelled from the design document and kept in separate operators.    *)
(***************************************************************************)
EXTENDS Integers, Sequences, FiniteSets, TLC

(***************************************************************************)
(* Bounds of the model.                                                    *)
(***************************************************************************)
\* how many times the wall clock may advance before setmocktime freezes it
MaxTicks == 1
\* how many times waitFor polls in one unit of its timeout
PollsPerUnit == 1
\* how many of the wallet's mature outputs listunspent may put first
MaxListed == 2
\* how many values random.getrandbits may return
MaxRand == 1
\* the largest count handed to create_checkdatasig_tx when it is exercised
\* on its own
MaxCount == 3

(***************************************************************************)
(* Constants of the script.                                                *)
(***************************************************************************)
NOV152018_START_TIME == 2000000000

\* node.generate(125), node.generate(1)
NumGenerated == 125
NumConfirm == 1

\* create_checkdatasig_tx(25)
NumOutputs == 25

\* for i in range(6)
RunLengthShort == 6 - 1
RunLength == 6

\* "-consensus.forkNov2018Time=%d" % NOV152018_START_TIME: the activation
\* time the node is started with
ForkNov2018TimeEarly == NOV152018_START_TIME - 1
ForkNov2018TimeLate == NOV152018_START_TIME + 1
ForkNov2018Time == NOV152018_START_TIME

\* the time offsets handed to next_block: in the run, for the block that
\* carries tx0 too early, for the activating block, for the block after it
RunOffset(i) == i - 1
CandidateOffsetRun == 6 - 1
CandidateOffset == 6
ForkOffsetNext == 6 + 1
ForkOffset == 6
TxBlockOffsetBack == 0 - 7
TxBlockOffset == 7

\* waitFor(3, ...)
WaitTimeout == 3

\* min(value/100, 1000)
FeeDivisor == 100
FeeCap == 1000

\* BAD_OPCODE_ERROR, as the words of the message
BAD_OPCODE_ERROR ==
    << "mandatory-script-verify-flag-failed",
       "(Opcode missing or not understood)" >>

\* RPC_BAD_OPCODE_ERROR = "16: " + BAD_OPCODE_ERROR
RPC_BAD_OPCODE_ERROR == << "16: " >> \o BAD_OPCODE_ERROR

\* assert_raises_rpc_error(-26, ...)
RPC_VERIFY_REJECTED == -26

\* RejectResult(16, b'bad-blk-signatures')
REJECT_INVALID == 16
BAD_BLK_SIGNATURES == << "bad-blk-signatures" >>

(***************************************************************************)
(* Parameters of the node under test (regtest), from the design document.  *)
(***************************************************************************)
\* number of block times the median-time-past is taken over
MedianTimeSpan == 11
\* confirmations a coinbase output needs before it can be spent
COINBASE_MATURITY == 100
\* a block may be at most this far ahead of the node's clock
MaxFutureBlockTime == 7200
\* time of the genesis block
GenesisTime == 1296688602
\* wall clock when the test starts
StartClock == 1700000000
\* value of a coinbase output, in satoshi (20 coins: amounts stay below 2^31)
Subsidy == 2000000000

NullHash == 0

(***************************************************************************)
(* Small helpers.                                                          *)
(***************************************************************************)
Max(a, b) == IF a >= b THEN a ELSE b

Range(s) == { s[k] : k \in DOMAIN s }

\* xs is a contiguous part of ys (python: xs in ys, for strings)
IsInfix(xs, ys) ==
    \E k \in 0..(Len(ys) - Len(xs)) :
        \A j \in 1..Len(xs) : ys[k + j] = xs[j]

\* the element at place k (from 0) of the sequence s of numbers once sorted
KthSmallest(s, k) ==
    CHOOSE x \in Range(s) :
        /\ Cardinality({ j \in DOMAIN s : s[j] < x }) <= k
        /\ Cardinality({ j \in DOMAIN s : s[j] <= x }) > k

\* the table of digests computed so far: a digest is the place of its
\* preimage in the table, so equal digests mean equal preimages
Intern(tbl, x) ==
    IF \E k \in DOMAIN tbl : tbl[k] = x THEN tbl ELSE Append(tbl, x)

Digest(tbl, x) == CHOOSE k \in DOMAIN tbl : tbl[k] = x

(***************************************************************************)
(* Primitive codec: transactions.                                          *)
(* A driver-side transaction carries the cached identity sha256 (None      *)
(* until computed); its serialization carries the inputs and outputs only. *)
(***************************************************************************)
None == << >>

\* CTxIn(COutPoint(hash, n)), with an empty scriptSig
CTxIn(hash, n) ==
    [ prevout |-> [ hash |-> hash, n |-> n ],
      scriptSig |-> [ kind |-> "empty", height |-> 0 ] ]

\* CTxOut(nValue, scriptPubKey); isFloat is python's type of nValue and
\* cents the hundredths of a satoshi a float nValue carries
CTxOut(nValue, script) ==
    [ nValue |-> nValue, cents |-> 0, isFloat |-> FALSE, scriptPubKey |-> script ]

\* CScript([...]): the operations, and the number pushed (0 when none)
CScript(ops, num) == [ ops |-> ops, num |-> num ]

\* CTransaction()
CTransaction == [ vin |-> << >>, vout |-> << >>, sha256 |-> None ]

\* the serialization of a transaction (ToHex, tx.toHex) drops the cache
ToHex(tx) == [ vin |-> tx.vin, vout |-> tx.vout ]

\* FromHex(CTransaction(), hex): the cache starts empty
FromHex(hex) == [ vin |-> hex.vin, vout |-> hex.vout, sha256 |-> None ]

\* struct.pack("<q", nValue) refuses a float
Serializable(tx) == \A k \in DOMAIN tx.vout : ~tx.vout[k].isFloat

\* the identity of a serialization: the hash of its bytes
TxHash(hex) == << hex.vin, hex.vout >>

\* tx.calc_sha256(): computes the identity only when none is cached
CalcSha256(tx) == IF tx.sha256 = None THEN TxHash(ToHex(tx)) ELSE tx.sha256

\* tx.rehash(): drops the cache, then calc_sha256()
Rehash(tx) == [ tx EXCEPT !.sha256 = TxHash(ToHex(tx)) ]

\* nValue -= min(nValue/100, 1000): python's / is a float division and
\* min returns its first argument on a tie, so the result is an int only
\* when nValue/100 > 1000
DeductFee(out) ==
    IF out.nValue > FeeDivisor * FeeCap
    THEN [ out EXCEPT !.nValue = out.nValue - FeeCap ]
    ELSE [ out EXCEPT !.nValue = (out.nValue * (FeeDivisor - 1)) \div FeeDivisor,
                      !.cents = (out.nValue * (FeeDivisor - 1)) % FeeDivisor,
                      !.isFloat = TRUE ]

(***************************************************************************)
(* Script builder.                                                         *)
(***************************************************************************)
\* CScript([signature, message, pubkey, OP_CHECKDATASIG])
ProducingScript ==
    CScript(<< "signature", "message", "pubkey", "OP_CHECKDATASIG" >>, 0)

\* CScript([])
EmptyScript == CScript(<< >>, 0)

\* CScript([random.getrandbits(800), OP_RETURN])
DataScript(bits) == CScript(<< "push", "OP_RETURN" >>, bits)

(***************************************************************************)
(* Primitive codec: blocks.                                                *)
(* A driver-side block carries the cached identity sha256 and driver-side  *)
(* transactions; what is sent to the node carries the header fields and    *)
(* the serialized transactions.                                            *)
(***************************************************************************)
\* the header fields a proof-of-work solution is searched for
PowInput(block) == << block.hashPrevBlock, block.nTime, block.hashMerkleRoot >>

\* the header fields the identity of a block is the hash of
Header(block) ==
    << block.hashPrevBlock, block.nTime, block.hashMerkleRoot, block.nNonce >>

\* block.calc_merkle_root(): over the identities of the transactions, each
\* taken from its cache when it has one
CalcMerkleRoot(vtx) == [ k \in DOMAIN vtx |-> CalcSha256(vtx[k]) ]

\* block.solve(): searches the nonce for the header as it is now and leaves
\* the identity of the solved header in the cache
SolveTable(tbl, block) ==
    LET t1 == Intern(tbl, PowInput(block))
        nonce == Digest(t1, PowInput(block))
    IN  Intern(t1, Header([ block EXCEPT !.nNonce = nonce ]))

SolveNoRehash(tbl, block) ==
    LET t1 == Intern(tbl, PowInput(block))
    IN  [ block EXCEPT !.nNonce = Digest(t1, PowInput(block)) ]
Solve(tbl, block) ==
    LET t1 == Intern(tbl, PowInput(block))
        solved == [ block EXCEPT !.nNonce = Digest(t1, PowInput(block)) ]
    IN  [ solved EXCEPT !.sha256 = Digest(SolveTable(tbl, block), Header(solved)) ]

\* create_coinbase(height): pays the block reward to an anyone-can-spend
\* script and commits to the height
CreateCoinbase(height) ==
    [ vin |-> << [ prevout |-> [ hash |-> None, n |-> -1 ],
                   scriptSig |-> [ kind |-> "coinbase", height |-> height ] ] >>,
      vout |-> << CTxOut(Subsidy, CScript(<< "OP_TRUE" >>, 0)) >>,
      sha256 |-> None ]

\* create_block(hashprev, coinbase, nTime): not yet solved
CreateBlock(hashprev, coinbase, nTime) ==
    [ hashPrevBlock |-> hashprev,
      nTime |-> nTime,
      hashMerkleRoot |-> CalcMerkleRoot(<< coinbase >>),
      nNonce |-> 0,
      vtx |-> << coinbase >>,
      sha256 |-> 0 ]

\* the block as it travels to the node
BlockToWire(block) ==
    [ hashPrevBlock |-> block.hashPrevBlock,
      nTime |-> block.nTime,
      hashMerkleRoot |-> block.hashMerkleRoot,
      nNonce |-> block.nNonce,
      vtx |-> [ k \in DOMAIN block.vtx |-> ToHex(block.vtx[k]) ] ]

\* format(sha256, 'x'): the hexadecimal digits, the most significant first,
\* without leading zeros
RECURSIVE FormatHex(_)
FormatHex(sha256) ==
    IF sha256 < 16 THEN << sha256 >>
    ELSE Append(FormatHex(sha256 \div 16), sha256 % 16)

\* the node's reading of a hash given in hexadecimal digits
RECURSIVE ParseHex(_)
ParseHex(str) ==
    IF str = << >> THEN 0
    ELSE 16 * ParseHex(SubSeq(str, 1, Len(str) - 1)) + str[Len(str)]

(***************************************************************************)
(* State.                                                                  *)
(***************************************************************************)
VARIABLES
    \* the node under test
    clock,        \* the wall clock
    ticks,        \* how often the wall clock has advanced
    mocktime,     \* the clock override, 0 when none is set
    forkNov2018Time, \* the activation time the node was started with
    hashed,       \* the digests computed so far
    chain,        \* the active chain; chain[h + 1] is the block at height h
    chainstate,   \* the coins database: the unspent outputs of the chain
    invalid,      \* identities of the blocks marked invalid
    mempool,      \* the pending pool, a set of serialized transactions
    reorgQ,       \* transactions waiting to be looked at again after a reorg
    toNode,       \* blocks sent to the node and not yet processed
    fromNode,     \* the node's answers not yet seen by the driver
    \* the driver (locals of get_tests)
    pc,
    i,
    tx_hex,
    txid,
    spendable_checkdatasigs,
    tx0,
    tx0_hex,
    tx0id,
    b,
    fork_block,
    nov152018forkblock,
    instance,     \* the test instance yielded and not yet resolved
    polls,
    failedAt,
    \* what was observed, for the properties
    poolLog,      \* one entry for each submission of tx0 to the pending pool
    blockLog,     \* one entry for each test instance that was resolved
    spendLog      \* one entry for each call of spend_checkdatasig

nodeVars == << clock, ticks, mocktime, forkNov2018Time, hashed, chain, chainstate, invalid, mempool, reorgQ,
               toNode, fromNode >>
driverVars == << pc, i, tx_hex, txid, spendable_checkdatasigs, tx0, tx0_hex,
                 tx0id, b, fork_block, nov152018forkblock, instance, polls,
                 failedAt >>
logVars == << poolLog, blockLog, spendLog >>
vars == << nodeVars, driverVars, logVars >>

(***************************************************************************)
(* The node under test.                                                    *)
(***************************************************************************)
\* the time the node goes by
Now == IF mocktime # 0 THEN mocktime ELSE clock

Height(c) == Len(c) - 1
Tip(c) == c[Len(c)]

\* the median of the times of the last MedianTimeSpan blocks of chain c
MedianTimePast(c) ==
    LET n == Len(c)
        lo == Max(1, n - MedianTimeSpan + 1)
        times == [ k \in 1..(n - lo + 1) |-> c[lo + k - 1].nTime ]
    IN  KthSmallest(times, Len(times) \div 2)

\* the opcode is enabled for what comes on top of chain c
IsCheckDataSigEnabled(c) == MedianTimePast(c) >= forkNov2018Time

\* every output chain c has created, with where it was created
CreatedCoins(c) ==
    UNION { UNION { { [ outpoint |-> [ hash |-> TxHash(c[h].vtx[t]), n |-> k - 1 ],
                        out |-> c[h].vtx[t].vout[k],
                        height |-> h - 1,
                        coinbase |-> (t = 1) ] : k \in DOMAIN c[h].vtx[t].vout }
                    : t \in DOMAIN c[h].vtx }
            : h \in DOMAIN c }

SpentOutpoints(txs) ==
    UNION { { tx.vin[j].prevout : j \in DOMAIN tx.vin } : tx \in txs }

ChainTxs(c) == UNION { Range(c[h].vtx) : h \in DOMAIN c }

\* the unspent outputs of chain c
Coins(c) ==
    LET spent == SpentOutpoints(ChainTxs(c))
    IN  { coin \in CreatedCoins(c) : coin.outpoint \notin spent }

WalletScript == CScript(<< "wallet-key", "OP_CHECKSIG" >>, 0)

\* listunspent: the wallet's outputs that are old enough to be spent
ListUnspent(c, coins) ==
    { coin \in coins :
        /\ coin.out.scriptPubKey = WalletScript
        /\ (~coin.coinbase \/ Height(c) - coin.height >= COINBASE_MATURITY) }

\* signrawtransaction: signs the inputs that spend the wallet's outputs
SignRawTransaction(c, coins, hex) ==
    [ hex EXCEPT !.vin =
        [ j \in DOMAIN hex.vin |->
            IF \E coin \in ListUnspent(c, coins) : coin.outpoint = hex.vin[j].prevout
            THEN [ hex.vin[j] EXCEPT !.scriptSig = [ kind |-> "wallet-sig", height |-> 0 ] ]
            ELSE hex.vin[j] ] ]

\* the outcome of running input j of a transaction against the output it
\* spends: "ok", or the script error
VerifyScript(scriptSig, scriptPubKey, enabled) ==
    IF scriptPubKey = WalletScript
    THEN IF scriptSig.kind = "wallet-sig" THEN "ok" ELSE "no-signature"
    ELSE IF \E k \in DOMAIN scriptPubKey.ops : scriptPubKey.ops[k] = "OP_CHECKDATASIG"
    THEN IF enabled THEN "ok" ELSE "bad-opcode"
    ELSE IF \E k \in DOMAIN scriptPubKey.ops : scriptPubKey.ops[k] = "OP_RETURN"
    THEN "op-return"
    ELSE IF scriptPubKey.ops = << >> THEN "eval-false"
    ELSE "ok"

\* the check of a transaction against the coins it may spend: "ok", or why not
CheckInputs(hex, coins, spendHeight, enabled) ==
    IF \E j \in DOMAIN hex.vin :
          ~\E coin \in coins : coin.outpoint = hex.vin[j].prevout
    THEN "missing-inputs"
    ELSE LET coinOf(j) == CHOOSE coin \in coins : coin.outpoint = hex.vin[j].prevout
         IN  IF \E j \in DOMAIN hex.vin :
                    /\ coinOf(j).coinbase
                    /\ spendHeight - coinOf(j).height < COINBASE_MATURITY
             THEN "premature-spend"
             ELSE IF \E j \in DOMAIN hex.vin :
                    VerifyScript(hex.vin[j].scriptSig, coinOf(j).out.scriptPubKey,
                                 enabled) = "bad-opcode"
             THEN "bad-opcode"
             ELSE IF \E j \in DOMAIN hex.vin :
                    VerifyScript(hex.vin[j].scriptSig, coinOf(j).out.scriptPubKey,
                                 enabled) # "ok"
             THEN "script-failed"
             ELSE "ok"

\* the coins a transaction may spend when it enters the pending pool
PoolCoins(coins, pool) ==
    { coin \in coins : coin.outpoint \notin SpentOutpoints(pool) }

\* the verdict of the pending pool on a serialized transaction
PoolVerdict(c, coins, pool, hex) ==
    IF hex \in pool THEN "already-in-pool"
    ELSE CheckInputs(hex, PoolCoins(coins, pool), Height(c) + 1,
                     IsCheckDataSigEnabled(c))

\* sendrawtransaction: the identity of the transaction when it was taken,
\* else the error
RpcOk(result) == [ ok |-> TRUE, code |-> 0, message |-> << >>, result |-> result ]
RpcError(code, message) ==
    [ ok |-> FALSE, code |-> code, message |-> message, result |-> None ]

SendRawTransaction(c, coins, pool, hex) ==
    LET verdict == PoolVerdict(c, coins, pool, hex)
    IN  IF verdict = "ok" THEN RpcOk(TxHash(hex))
        ELSE IF verdict = "bad-opcode"
        THEN RpcError(RPC_VERIFY_REJECTED, << "16: " >> \o BAD_OPCODE_ERROR)
        ELSE IF verdict = "missing-inputs"
        THEN RpcError(-25, << "Missing inputs" >>)
        ELSE RpcError(RPC_VERIFY_REJECTED, << "16: " >> \o << verdict >>)

PoolAfterSendAlways(c, coins, pool, hex) == pool \cup { hex }
PoolAfterSend(c, coins, pool, hex) ==
    IF PoolVerdict(c, coins, pool, hex) = "ok" THEN pool \cup { hex } ELSE pool

\* getrawmempool: the identities of the transactions of the pending pool
GetRawMempool(pool) == { TxHash(hex) : hex \in pool }

\* the coins left after a transaction of a block is connected
SpendCoins(coins, hex, height, isCoinbase) ==
    { coin \in coins : coin.outpoint \notin SpentOutpoints({ hex }) }
    \cup { [ outpoint |-> [ hash |-> TxHash(hex), n |-> k - 1 ],
             out |-> hex.vout[k],
             height |-> height,
             coinbase |-> isCoinbase ] : k \in DOMAIN hex.vout }

\* the check of the transactions of a block from the k-th on, in order
RECURSIVE CheckBlockTxs(_, _, _, _, _)
CheckBlockTxs(vtx, k, coins, height, enabled) ==
    IF k > Len(vtx) THEN "ok"
    ELSE LET verdict == CheckInputs(vtx[k], coins, height, enabled)
         IN  IF verdict # "ok" THEN verdict
             ELSE CheckBlockTxs(vtx, k + 1, SpendCoins(coins, vtx[k], height, FALSE),
                                height, enabled)

\* the proof of work of a block is the one searched for its header
CheckProofOfWork(tbl, blk) ==
    \E k \in DOMAIN tbl : tbl[k] = PowInput(blk) /\ k = blk.nNonce

\* the verdict of the node on block blk offered on top of chain c: "ok", or
\* the reason of the rejection
BlockVerdict(c, coins, tbl, bad, now, blk) ==
    IF ~CheckProofOfWork(tbl, blk) THEN "high-hash"
    ELSE IF Digest(Intern(tbl, Header(blk)), Header(blk)) \in bad THEN "duplicate-invalid"
    ELSE IF blk.hashPrevBlock # Tip(c).hash THEN "prev-blk-not-found"
    ELSE IF blk.vtx = << >> \/ blk.vtx[1].vin[1].scriptSig.kind # "coinbase"
    THEN "bad-cb-missing"
    ELSE IF blk.hashMerkleRoot # [ k \in DOMAIN blk.vtx |-> TxHash(blk.vtx[k]) ]
    THEN "bad-txnmrklroot"
    ELSE IF blk.nTime <= MedianTimePast(c) THEN "time-too-old"
    ELSE IF blk.nTime > now + MaxFutureBlockTime THEN "time-too-new"
    ELSE LET verdict ==
                CheckBlockTxs(blk.vtx, 2,
                              SpendCoins(coins, blk.vtx[1], Height(c) + 1, TRUE),
                              Height(c) + 1, IsCheckDataSigEnabled(c))
         IN  IF verdict = "ok" THEN "ok"
             ELSE IF verdict \in { "bad-opcode", "script-failed" }
             THEN "bad-blk-signatures"
             ELSE "bad-txns-inputs-missingorspent"

\* the block as the node keeps it
Indexed(tbl, blk) ==
    [ hash |-> Digest(Intern(tbl, Header(blk)), Header(blk)),
      hashPrevBlock |-> blk.hashPrevBlock,
      nTime |-> blk.nTime,
      hashMerkleRoot |-> blk.hashMerkleRoot,
      nNonce |-> blk.nNonce,
      vtx |-> blk.vtx ]

\* the pending pool after block blk was connected: its transactions and
\* the ones spending what it spends leave
PoolAfterBlock(pool, blk) ==
    LET left == { hex \in pool :
                    /\ hex \notin Range(blk.vtx)
                    /\ SpentOutpoints({ hex }) \cap SpentOutpoints(Range(blk.vtx)) = { } }
    IN  { hex : hex \in left }

RECURSIVE SetToSeq(_)
SetToSeq(S) ==
    IF S = { } THEN << >>
    ELSE LET x == CHOOSE y \in S : TRUE IN << x >> \o SetToSeq(S \ { x })

\* the block the node mines on top of chain c from the pending pool
MinedBlock(c, tbl, pool, now) ==
    LET coinbase ==
            [ vin |-> << [ prevout |-> [ hash |-> None, n |-> -1 ],
                           scriptSig |-> [ kind |-> "coinbase",
                                           height |-> Height(c) + 1 ] ] >>,
              vout |-> << CTxOut(Subsidy, WalletScript) >> ]
        vtx == << coinbase >> \o SetToSeq(pool)
        unsolved ==
            [ hashPrevBlock |-> Tip(c).hash,
              nTime |-> Max(MedianTimePast(c) + 1, now),
              hashMerkleRoot |-> [ k \in DOMAIN vtx |-> TxHash(vtx[k]) ],
              nNonce |-> 0,
              vtx |-> vtx ]
    IN  [ unsolved EXCEPT
            !.nNonce = Digest(Intern(tbl, PowInput(unsolved)), PowInput(unsolved)) ]

\* one block mined on the chain of node state s (its chain, its digests and
\* its pending pool)
MineOne(s, now) ==
    LET blk == MinedBlock(s.chain, s.hashed, s.mempool, now)
        tbl == Intern(Intern(s.hashed, PowInput(blk)), Header(blk))
    IN  [ chain |-> Append(s.chain, Indexed(tbl, blk)),
          hashed |-> tbl,
          mempool |-> PoolAfterBlock(s.mempool, blk) ]

\* generate(n): n blocks mined one on the other, the first of which takes
\* the pending pool (evaluated as the first half of them, then the rest)
RECURSIVE Generate(_, _, _)
Generate(s, now, n) ==
    IF n = 0 \/ s.chain = << >> THEN s
    ELSE IF n = 1 THEN MineOne(s, now)
    ELSE Generate(Generate(s, now, n \div 2), now, n - (n \div 2))

\* the genesis block
GenesisBlock ==
    [ hash |-> 1,
      hashPrevBlock |-> NullHash,
      nTime |-> GenesisTime,
      hashMerkleRoot |-> << >>,
      nNonce |-> 0,
      vtx |-> << >> ]

\* where the block of identity hash is in chain c, 0 when it is not there
PositionOf(c, hash) ==
    IF \E k \in DOMAIN c : c[k].hash = hash
    THEN CHOOSE k \in DOMAIN c : c[k].hash = hash
    ELSE 0

\* invalidateblock: the block and what was built on it leave the active chain
\* (ChainAfterInvalidateTip also drops the tip when the block is not there)
ChainAfterInvalidateTip(c, hash) ==
    IF PositionOf(c, hash) > 1 THEN SubSeq(c, 1, PositionOf(c, hash) - 1)
    ELSE IF Len(c) > 1 THEN SubSeq(c, 1, Len(c) - 1)
    ELSE c
ChainAfterInvalidate(c, hash) ==
    IF PositionOf(c, hash) > 1 THEN SubSeq(c, 1, PositionOf(c, hash) - 1) ELSE c

\* the transactions of the blocks that left the chain, coinbases apart
Disconnected(c, hash) ==
    IF PositionOf(c, hash) > 1
    THEN UNION { { c[k].vtx[t] : t \in 2..Len(c[k].vtx) }
                 : k \in PositionOf(c, hash)..Len(c) }
    ELSE { }

\* what the node looks at again after invalidateblock: the transactions that
\* left the chain and the ones of the pending pool
QueueAfterInvalidate(c, pool, queue, hash) ==
    IF PositionOf(c, hash) > 1
    THEN queue \cup Disconnected(c, hash) \cup pool
    ELSE queue

\* the node after invalidateblock: its chain, what it has to look at again,
\* the blocks marked invalid and its pending pool
AfterInvalidate(c, pool, queue, bad, hash) ==
    [ chain |-> ChainAfterInvalidate(c, hash),
      reorgQ |-> QueueAfterInvalidate(c, pool, queue, hash),
      invalid |-> bad \cup { hash },
      mempool |-> pool ]

\* the pending pool after the node looked again at transaction hex: it is
\* in the pool exactly when it is valid on top of chain c
PoolAfterRecheck(c, coins, pool, hex) ==
    IF PoolVerdict(c, coins, pool \ { hex }, hex) = "ok"
    THEN pool \cup { hex }
    ELSE pool \ { hex }

(***************************************************************************)
(* The test framework, from the design document.                           *)
(***************************************************************************)
\* accepted(tip), rejected(tip), rejected(tip, reject): a test instance is
\* one block with the outcome expected for it
TestInstance(block, accept, code, reason, resume) ==
    [ block |-> block, accept |-> accept, code |-> code, reason |-> reason,
      resume |-> resume ]

NoInstance ==
    TestInstance(CreateBlock(NullHash, CreateCoinbase(0), 0), TRUE, 0, << >>, "")

\* RejectResult(code, reason)
RejectResult(code, reason) == [ code |-> code, reason |-> reason ]

\* the comparison of the node's answer with the outcome a test instance
\* expects: an accepted block is the new tip; a rejected one is not, and a
\* RejectResult also names the code and the reason of the reject message
OutcomeMatches(inst, answer) ==
    IF inst.accept THEN answer.tip = inst.block.sha256
    ELSE /\ answer.tip # inst.block.sha256
         /\ inst.code # 0 =>
                /\ answer.hash = inst.block.sha256
                /\ answer.code = inst.code
                /\ IsInfix(inst.reason, SubSeq(answer.reason, 1, Len(inst.reason)))

\* assert_raises_rpc_error(code, message, call): the call failed with this
\* code and a message that holds the given one
RaisesRpcError(code, message, result) ==
    /\ ~result.ok
    /\ result.code = code
    /\ IsInfix(message, result.message)

(***************************************************************************)
(* The driver's helpers.                                                   *)
(***************************************************************************)
\* PreviousSpendableOutput(tx, n)
PreviousSpendableOutput(tx, n) == [ tx |-> tx, n |-> n ]

\* create_checkdatasig_tx(count), up to the signing: utxo is utxos[0]
CreateCheckdatasigTx(utxo, count) ==
    LET value == utxo.out.nValue \div count
        outs == [ k \in 1..count |-> CTxOut(value, ProducingScript) ]
    IN  [ CTransaction EXCEPT
            !.vin = << CTxIn(utxo.outpoint.hash, utxo.outpoint.n) >>,
            !.vout = IF count >= 1
                     THEN [ outs EXCEPT ![1] = DeductFee(outs[1]) ]
                     ELSE outs ]

\* the outputs registered as spendable: one for each output of tx
RegisterSpendable(tx) ==
    [ k \in 1..Len(tx.vout) |-> PreviousSpendableOutput(tx, k - 1) ]

\* spendable_checkdatasigs.pop(): the last one (PopFirst is pop(0), Peek is
\* [-1])
PopFirst(stack) == [ outpoint |-> Head(stack), rest |-> Tail(stack) ]
Peek(stack) == [ outpoint |-> stack[Len(stack)], rest |-> stack ]
Pop(stack) ==
    [ outpoint |-> stack[Len(stack)], rest |-> SubSeq(stack, 1, Len(stack) - 1) ]

\* spend_checkdatasig(), before its rehash: bits is what getrandbits gave
SpendCheckdatasig(stack, bits) ==
    LET outpoint == Pop(stack).outpoint
        out == outpoint.tx.vout[outpoint.n + 1]
    IN  [ CTransaction EXCEPT
            !.vin = << CTxIn(outpoint.tx.sha256, outpoint.n) >>,
            !.vout = << DeductFee(CTxOut(out.nValue, EmptyScript)),
                        CTxOut(0, DataScript(bits)) >> ]

\* next_block(block_time): a solved block on the node's best block
NextBlockUnsolved(c, block_time) ==
    CreateBlock(Tip(c).hash, Rehash(CreateCoinbase(Height(c))), block_time)

NextBlock(c, tbl, block_time) == Solve(tbl, NextBlockUnsolved(c, block_time))

\* add_tx(block, tx) (AddTxStale leaves the merkle root as it was)
AddTxStale(block, tx) == [ block EXCEPT !.vtx = Append(block.vtx, tx) ]
AddTxUnsolved(block, tx) ==
    LET appended == [ block EXCEPT !.vtx = Append(block.vtx, tx) ]
    IN  [ appended EXCEPT !.hashMerkleRoot = CalcMerkleRoot(appended.vtx) ]

AddTx(tbl, block, tx) == Solve(tbl, AddTxUnsolved(block, tx))

\* the mediantime of getblockheader(getbestblockhash())
MedianTime == MedianTimePast(chain)

(***************************************************************************)
(* Initial state: a clean regtest chain and a driver about to start.       *)
(***************************************************************************)
\* everything but the activation time the node is started with
Start ==
    /\ clock = StartClock
    /\ ticks = 0
    /\ mocktime = 0
    /\ hashed = << Header(GenesisBlock) >>
    /\ chain = << GenesisBlock >>
    /\ chainstate = { }
    /\ invalid = { }
    /\ mempool = { }
    /\ reorgQ = { }
    /\ toNode = << >>
    /\ fromNode = << >>
    /\ pc = "generate_coins"
    /\ i = 0
    /\ tx_hex = ToHex(CTransaction)
    /\ txid = None
    /\ spendable_checkdatasigs = << >>
    /\ tx0 = CTransaction
    /\ tx0_hex = ToHex(CTransaction)
    /\ tx0id = None
    /\ b = NoInstance.block
    /\ fork_block = NoInstance.block
    /\ nov152018forkblock = NoInstance.block
    /\ instance = NoInstance
    /\ polls = 0
    /\ failedAt = ""
    /\ poolLog = << >>
    /\ blockLog = << >>
    /\ spendLog = << >>

\* start_node(..., "-consensus.forkNov2018Time=%d" % NOV152018_START_TIME)
Init == Start /\ forkNov2018Time = ForkNov2018Time

(***************************************************************************)
(* The environment: the wall clock, the node's threads.                    *)
(***************************************************************************)
\* time passes; once setmocktime is in force the node no longer follows it
Tick ==
    /\ ticks < MaxTicks
    /\ mocktime = 0
    /\ pc \notin { "done", "failed" }
    /\ clock' = clock + 1
    /\ ticks' = ticks + 1
    /\ UNCHANGED << mocktime, forkNov2018Time, hashed, chain, chainstate, invalid, mempool, reorgQ, toNode,
                    fromNode, driverVars, logVars >>

\* the node processes a block it was sent and answers
NodeProcessBlock ==
    /\ toNode # << >>
    /\ LET blk == Head(toNode)
           verdict == BlockVerdict(chain, chainstate, hashed, invalid, Now, blk)
           tbl == Intern(hashed, Header(blk))
           entry == Indexed(tbl, blk)
       IN  /\ hashed' = tbl
           /\ chain' = IF verdict = "ok" THEN Append(chain, entry) ELSE chain
           /\ chainstate' = IF verdict = "ok" THEN Coins(chain') ELSE chainstate
           /\ mempool' = IF verdict = "ok" THEN PoolAfterBlock(mempool, blk)
                         ELSE mempool
           /\ invalid' = IF verdict \in { "ok", "prev-blk-not-found", "time-too-new" }
                         THEN invalid
                         ELSE invalid \cup { entry.hash }
           /\ fromNode' = Append(fromNode,
                 [ hash |-> entry.hash,
                   tip |-> IF verdict = "ok" THEN entry.hash ELSE Tip(chain).hash,
                   code |-> IF verdict = "ok" THEN 0 ELSE REJECT_INVALID,
                   reason |-> << verdict >> ])
    /\ toNode' = Tail(toNode)
    /\ UNCHANGED << clock, ticks, mocktime, forkNov2018Time, reorgQ, driverVars,
                    logVars >>

\* the node looks again at one transaction left over by a reorg
NodeRecheck ==
    /\ \E hex \in reorgQ :
        /\ mempool' = PoolAfterRecheck(chain, chainstate, mempool, hex)
        /\ reorgQ' = reorgQ \ { hex }
    /\ UNCHANGED << clock, ticks, mocktime, forkNov2018Time, hashed, chain, chainstate, invalid, toNode,
                    fromNode, driverVars, logVars >>

(***************************************************************************)
(* The driver: get_tests, one action for each step between two points      *)
(* where the node or the framework can act.                                *)
(***************************************************************************)
timeVars == << clock, ticks, mocktime, forkNov2018Time >>
chainVars == << hashed, chain, chainstate, invalid >>
netVars == << toNode, fromNode >>
txVars == << tx_hex, txid, spendable_checkdatasigs, tx0, tx0_hex, tx0id >>
blockVars == << b, fork_block, nov152018forkblock >>

Goto(next) == pc' = next /\ failedAt' = failedAt
FailRetry(step) == pc' = step /\ failedAt' = step
Fail(step) == pc' = "failed" /\ failedAt' = step

\* node.generate(125)
GenerateCoins ==
    /\ pc = "generate_coins"
    /\ LET g == Generate([ chain |-> chain, hashed |-> hashed, mempool |-> mempool ], Now,
                         NumGenerated)
       IN  /\ chain' = g.chain
           /\ chainstate' = Coins(g.chain)
           /\ hashed' = g.hashed
           /\ mempool' = g.mempool
    /\ Goto("create_tx")
    /\ UNCHANGED << timeVars, invalid, reorgQ, netVars, i, txVars, blockVars,
                    instance, polls, logVars >>

\* an output of the wallet that is not a coinbase
WalletCoin(amount) ==
    [ outpoint |-> [ hash |-> TxHash(ToHex(CTransaction)), n |-> 0 ],
      out |-> CTxOut(amount, WalletScript),
      height |-> 0,
      coinbase |-> FALSE ]

\* the outputs listunspent may put first (ListedOrDefault makes one up when
\* there is none)
ListedOrDefault(c, coins) ==
    IF ListUnspent(c, coins) = { } THEN { WalletCoin(Subsidy) }
    ELSE { coin \in ListUnspent(c, coins) :
             Cardinality({ d \in ListUnspent(c, coins) : d.height < coin.height })
                 < MaxListed }
Listed(c, coins) ==
    { coin \in ListUnspent(c, coins) :
        Cardinality({ d \in ListUnspent(c, coins) : d.height < coin.height })
            < MaxListed }

\* tx_hex = self.create_checkdatasig_tx(25)
CreateFundingAt(step, count, next) ==
    /\ pc = step
    /\ IF Listed(chain, chainstate) = { }
       THEN Fail(step) /\ UNCHANGED tx_hex
       ELSE \E coin \in Listed(chain, chainstate) :
              LET tx == CreateCheckdatasigTx(coin, count)
              IN  IF Serializable(tx)
                  THEN /\ tx_hex' = SignRawTransaction(chain, chainstate, ToHex(tx))
                       /\ Goto(next)
                  ELSE Fail(step) /\ UNCHANGED tx_hex
    /\ UNCHANGED << nodeVars, i, txid, spendable_checkdatasigs, tx0, tx0_hex,
                    tx0id, blockVars, instance, polls, logVars >>

CreateFunding == CreateFundingAt("create_tx", NumOutputs, "send_funding")

\* txid = node.sendrawtransaction(tx_hex); assert txid in the pool
SendFunding ==
    /\ pc = "send_funding"
    /\ LET result == SendRawTransaction(chain, chainstate, mempool, tx_hex)
       IN  /\ mempool' = PoolAfterSend(chain, chainstate, mempool, tx_hex)
           /\ IF result.ok /\ result.result \in GetRawMempool(mempool')
              THEN txid' = result.result /\ Goto("confirm")
              ELSE UNCHANGED txid /\ Fail("send_funding")
    /\ UNCHANGED << timeVars, chainVars, reorgQ, netVars, i, tx_hex,
                    spendable_checkdatasigs, tx0, tx0_hex, tx0id, blockVars,
                    instance, polls, logVars >>

\* node.generate(1); assert txid not in the pool
ConfirmFunding ==
    /\ pc = "confirm"
    /\ LET g == Generate([ chain |-> chain, hashed |-> hashed, mempool |-> mempool ], Now,
                         NumConfirm)
       IN  /\ chain' = g.chain
           /\ chainstate' = Coins(g.chain)
           /\ hashed' = g.hashed
           /\ mempool' = g.mempool
    /\ IF txid \notin GetRawMempool(mempool')
       THEN Goto("register")
       ELSE Fail("confirm")
    /\ UNCHANGED << timeVars, invalid, reorgQ, netVars, i, txVars, blockVars,
                    instance, polls, logVars >>

\* tx = FromHex(CTransaction(), tx_hex); tx.rehash(); the spendable outputs
RegisterAt(step, next) ==
    /\ pc = step
    /\ spendable_checkdatasigs' = RegisterSpendable(Rehash(FromHex(tx_hex)))
    /\ Goto(next)
    /\ UNCHANGED << nodeVars, i, tx_hex, txid, tx0, tx0_hex, tx0id, blockVars,
                    instance, polls, logVars >>

Register == RegisterAt("register", "spend")

\* tx0 = spend_checkdatasig(); tx0_hex = ToHex(tx0)
\* what one call of spend_checkdatasig that got past its pop() leaves in the
\* log: the outputs known before and after it, and the transaction returned
SpendEntry(before, after, returned, tx) ==
    [ before |-> before, after |-> after, returned |-> returned, tx |-> tx ]

SpendAt(step, next) ==
    /\ pc = step
    /\ IF spendable_checkdatasigs = << >>
       THEN /\ Fail(step)
            /\ UNCHANGED << spendable_checkdatasigs, tx0, tx0_hex, spendLog >>
       ELSE \E bits \in 1..MaxRand :
              LET tx == SpendCheckdatasig(spendable_checkdatasigs, bits)
              IN  /\ spendable_checkdatasigs' = Pop(spendable_checkdatasigs).rest
                  /\ spendLog' = Append(spendLog,
                        SpendEntry(spendable_checkdatasigs, spendable_checkdatasigs',
                                   Serializable(tx),
                                   IF Serializable(tx) THEN Rehash(tx) ELSE tx))
                  /\ IF Serializable(tx)
                     THEN /\ tx0' = Rehash(tx)
                          /\ tx0_hex' = ToHex(tx0')
                          /\ Goto(next)
                     ELSE /\ UNCHANGED << tx0, tx0_hex >>
                          /\ Fail(step)
    /\ UNCHANGED << nodeVars, i, tx_hex, txid, tx0id, blockVars, instance, polls,
                    poolLog, blockLog >>

Spend == SpendAt("spend", "reject_early")

\* what one submission of tx0 to the pending pool leaves in the log
PoolEntry(step, expectReject, result, pool) ==
    [ step |-> step,
      height |-> Height(chain),
      tip |-> Tip(chain).hash,
      mtp |-> MedianTime,
      mtpBelow |-> MedianTimePast(SubSeq(chain, 1, Len(chain) - 1)),
      tipTime |-> Tip(chain).nTime,
      expectReject |-> expectReject,
      expectCode |-> IF expectReject THEN RPC_VERIFY_REJECTED ELSE 0,
      expectMessage |-> IF expectReject THEN RPC_BAD_OPCODE_ERROR ELSE << >>,
      sent |-> tx0_hex,
      result |-> result,
      inPool |-> TxHash(tx0_hex) \in GetRawMempool(pool) ]

\* assert_raises_rpc_error(-26, RPC_BAD_OPCODE_ERROR,
\*                         node.sendrawtransaction, tx0_hex)
ExpectRejected(step, next) ==
    /\ pc = step
    /\ LET result == SendRawTransaction(chain, chainstate, mempool, tx0_hex)
       IN  /\ mempool' = PoolAfterSend(chain, chainstate, mempool, tx0_hex)
           /\ poolLog' = Append(poolLog, PoolEntry(step, TRUE, result, mempool'))
           /\ IF RaisesRpcError(RPC_VERIFY_REJECTED, RPC_BAD_OPCODE_ERROR, result)
              THEN Goto(next)
              ELSE Fail(step)
    /\ UNCHANGED << timeVars, chainVars, reorgQ, netVars, i, txVars, blockVars,
                    instance, polls, blockLog, spendLog >>

RejectEarly == ExpectRejected("reject_early", "setmocktime")

\* node.setmocktime(NOV152018_START_TIME)
SetMockTime ==
    /\ pc = "setmocktime"
    /\ mocktime' = NOV152018_START_TIME
    /\ i' = 0
    /\ Goto("run_loop")
    /\ UNCHANGED << clock, ticks, forkNov2018Time, chainVars, mempool, reorgQ, netVars, txVars,
                    blockVars, instance, polls, logVars >>

\* yield: the block goes to the node and the driver waits for the outcome
YieldAndGo(inst) ==
    /\ instance' = inst
    /\ toNode' = Append(toNode, BlockToWire(inst.block))
    /\ Goto(inst.resume)
Yield(inst) ==
    /\ instance' = inst
    /\ toNode' = Append(toNode, BlockToWire(inst.block))
    /\ Goto("await")

\* for i in range(6): b = next_block(NOV152018_START_TIME + i - 1)
\*                    yield accepted(b)
RunLoop ==
    /\ pc = "run_loop"
    /\ IF i < RunLength
       THEN LET blk == NextBlock(chain, hashed, NOV152018_START_TIME + RunOffset(i))
            IN  /\ b' = blk
                /\ hashed' = SolveTable(hashed,
                      NextBlockUnsolved(chain, NOV152018_START_TIME + RunOffset(i)))
                /\ Yield(TestInstance(blk, TRUE, 0, << >>, "run_loop"))
                /\ i' = i + 1
       ELSE /\ Goto("check_mtp_before")
            /\ UNCHANGED << b, hashed, instance, toNode, i >>
    /\ UNCHANGED << timeVars, chain, chainstate, invalid, mempool, reorgQ, fromNode, txVars,
                    fork_block, nov152018forkblock, polls, logVars >>

\* the framework resolves the instance: the outcome is compared with the
\* expected one and the driver goes on, or the test fails
Resolve ==
    /\ pc = "await"
    /\ fromNode # << >>
    /\ LET answer == Head(fromNode)
       IN  /\ blockLog' = Append(blockLog,
                 [ block |-> instance.block,
                   accept |-> instance.accept,
                   code |-> instance.code,
                   reason |-> instance.reason,
                   resume |-> instance.resume,
                   answer |-> answer,
                   height |-> Height(chain),
                   tip |-> Tip(chain).hash,
                   mtp |-> MedianTime,
                   parentMtp |->
                       MedianTimePast(SubSeq(chain, 1,
                           PositionOf(chain, instance.block.hashPrevBlock))),
                   inPool |-> TxHash(tx0_hex) \in GetRawMempool(mempool) ])
           /\ IF OutcomeMatches(instance, answer)
              THEN Goto(instance.resume)
              ELSE Fail(instance.resume)
    /\ fromNode' = Tail(fromNode)
    /\ UNCHANGED << timeVars, chainVars, mempool, reorgQ, toNode, i, txVars,
                    blockVars, instance, polls, poolLog, spendLog >>

\* assert_equal(mediantime of the best block, NOV152018_START_TIME - 1)
CheckMtpBefore ==
    /\ pc = "check_mtp_before"
    /\ IF MedianTime = NOV152018_START_TIME - 1
       THEN Goto("reject_late")
       ELSE Fail("check_mtp_before")
    /\ UNCHANGED << nodeVars, i, txVars, blockVars, instance, polls, logVars >>

RejectLate == ExpectRejected("reject_late", "block_with_tx")

\* b = next_block(NOV152018_START_TIME + 6); add_tx(b, tx0)
\* yield rejected(b, RejectResult(16, b'bad-blk-signatures'))
ExpectedBlockRejectPool == RejectResult(RPC_VERIFY_REJECTED, BAD_OPCODE_ERROR)
ExpectedBlockReject == RejectResult(REJECT_INVALID, BAD_BLK_SIGNATURES)

BlockWithTx ==
    /\ pc = "block_with_tx"
    /\ LET t1 == SolveTable(hashed,
                    NextBlockUnsolved(chain, NOV152018_START_TIME + CandidateOffset))
           blk == NextBlock(chain, hashed, NOV152018_START_TIME + CandidateOffset)
       IN  /\ b' = AddTx(t1, blk, tx0)
           /\ hashed' = SolveTable(t1, AddTxUnsolved(blk, tx0))
           /\ Yield(TestInstance(b', FALSE, ExpectedBlockReject.code,
                                 ExpectedBlockReject.reason, "fork_block"))
    /\ UNCHANGED << timeVars, chain, chainstate, invalid, mempool, reorgQ, fromNode, i, txVars,
                    fork_block, nov152018forkblock, polls, logVars >>

\* fork_block = next_block(NOV152018_START_TIME + 6)
\* yield accepted(fork_block)
ForkBlock ==
    /\ pc = "fork_block"
    /\ fork_block' = NextBlock(chain, hashed, NOV152018_START_TIME + ForkOffset)
    /\ hashed' = SolveTable(hashed,
                    NextBlockUnsolved(chain, NOV152018_START_TIME + ForkOffset))
    /\ Yield(TestInstance(fork_block', TRUE, 0, << >>, "check_mtp_after"))
    /\ UNCHANGED << timeVars, chain, chainstate, invalid, mempool, reorgQ, fromNode, i, txVars,
                    b, nov152018forkblock, polls, logVars >>

\* assert_equal(mediantime of the best block, NOV152018_START_TIME)
CheckMtpAfter ==
    /\ pc = "check_mtp_after"
    /\ IF MedianTime = NOV152018_START_TIME
       THEN Goto("send_tx0")
       ELSE Fail("check_mtp_after")
    /\ UNCHANGED << nodeVars, i, txVars, blockVars, instance, polls, logVars >>

\* tx0id = node.sendrawtransaction(tx0_hex); assert tx0id in the pool
SendTx0 ==
    /\ pc = "send_tx0"
    /\ LET result == SendRawTransaction(chain, chainstate, mempool, tx0_hex)
       IN  /\ mempool' = PoolAfterSend(chain, chainstate, mempool, tx0_hex)
           /\ poolLog' = Append(poolLog, PoolEntry("send_tx0", FALSE, result, mempool'))
           /\ IF result.ok /\ result.result \in GetRawMempool(mempool')
              THEN tx0id' = result.result /\ Goto("block_after")
              ELSE UNCHANGED tx0id /\ Fail("send_tx0")
    /\ UNCHANGED << timeVars, chainVars, reorgQ, netVars, i, tx_hex, txid,
                    spendable_checkdatasigs, tx0, tx0_hex, blockVars, instance,
                    polls, blockLog, spendLog >>

\* nov152018forkblock = next_block(NOV152018_START_TIME + 7)
\* add_tx(nov152018forkblock, tx0); yield accepted(nov152018forkblock)
BlockAfter ==
    /\ pc = "block_after"
    /\ LET t1 == SolveTable(hashed,
                    NextBlockUnsolved(chain, NOV152018_START_TIME + TxBlockOffset))
           blk == NextBlock(chain, hashed, NOV152018_START_TIME + TxBlockOffset)
       IN  /\ nov152018forkblock' = AddTx(t1, blk, tx0)
           /\ hashed' = SolveTable(t1, AddTxUnsolved(blk, tx0))
           /\ Yield(TestInstance(nov152018forkblock', TRUE, 0, << >>, "check_mined"))
    /\ UNCHANGED << timeVars, chain, chainstate, invalid, mempool, reorgQ, fromNode, i, txVars,
                    b, fork_block, polls, logVars >>

\* assert tx0id not in the pool
CheckMined ==
    /\ pc = "check_mined"
    /\ IF tx0id \notin GetRawMempool(mempool)
       THEN Goto("invalidate_tx_block")
       ELSE Fail("check_mined")
    /\ UNCHANGED << nodeVars, i, txVars, blockVars, instance, polls, logVars >>

\* node.invalidateblock(format(block.sha256, 'x'))
InvalidateBlock(step, block, next) ==
    /\ pc = step
    /\ LET after == AfterInvalidate(chain, mempool, reorgQ, invalid,
                                    ParseHex(FormatHex(block.sha256)))
       IN  /\ chain' = after.chain
           /\ chainstate' = Coins(chain')
           /\ reorgQ' = after.reorgQ
           /\ invalid' = after.invalid
    /\ polls' = 0
    /\ Goto(next)
    /\ UNCHANGED << timeVars, hashed, mempool, netVars, i, txVars, blockVars,
                    instance, logVars >>

InvalidateTxBlockOther ==
    InvalidateBlock("invalidate_tx_block", fork_block, "wait_back")
InvalidateTxBlock ==
    InvalidateBlock("invalidate_tx_block", nov152018forkblock, "wait_back")

\* waitFor(3, predicate): polls until the predicate holds or the time is up
\* (WaitForNoLimit never gives up)
WaitForNoLimit(step, holds, next) ==
    /\ pc = step
    /\ IF holds
       THEN Goto(next) /\ UNCHANGED polls
       ELSE polls' = polls + 1 /\ Goto(step)
    /\ UNCHANGED << nodeVars, i, txVars, blockVars, instance, logVars >>
WaitFor(step, holds, next) ==
    /\ pc = step
    /\ IF holds
       THEN Goto(next) /\ UNCHANGED polls
       ELSE IF polls < WaitTimeout * PollsPerUnit
       THEN polls' = polls + 1 /\ Goto(step)
       ELSE Fail(step) /\ UNCHANGED polls
    /\ UNCHANGED << nodeVars, i, txVars, blockVars, instance, logVars >>

\* waitFor(3, lambda: tx0id in the pool)
WaitBack ==
    WaitFor("wait_back", tx0id \in GetRawMempool(mempool), "invalidate_fork_block")

InvalidateForkBlockOther ==
    InvalidateBlock("invalidate_fork_block", nov152018forkblock, "wait_gone")
InvalidateForkBlock ==
    InvalidateBlock("invalidate_fork_block", fork_block, "wait_gone")

\* waitFor(3, lambda: tx0id not in the pool)
WaitGone == WaitFor("wait_gone", tx0id \notin GetRawMempool(mempool), "done")

(***************************************************************************)
(* The specification.                                                      *)
(***************************************************************************)
Driver ==
    \/ GenerateCoins
    \/ CreateFunding
    \/ SendFunding
    \/ ConfirmFunding
    \/ Register
    \/ Spend
    \/ RejectEarly
    \/ SetMockTime
    \/ RunLoop
    \/ Resolve
    \/ CheckMtpBefore
    \/ RejectLate
    \/ BlockWithTx
    \/ ForkBlock
    \/ CheckMtpAfter
    \/ SendTx0
    \/ BlockAfter
    \/ CheckMined
    \/ InvalidateTxBlock
    \/ WaitBack
    \/ InvalidateForkBlock
    \/ WaitGone

Next == Driver \/ Tick \/ NodeProcessBlock \/ NodeRecheck

Spec == Init /\ [][Next]_vars

\* the node's thread that looks again at transactions after a reorg is not
\* starved
FairSpec == Spec /\ WF_vars(NodeRecheck)

\* the driver's thread goes on polling while it waits
WaitSpec == Spec /\ WF_vars(WaitBack) /\ WF_vars(WaitGone)

\* a node under test that may be wrong about the activation time: it
\* activates a second early, on time or a second late
NodeForkTimes ==
    { NOV152018_START_TIME - 1, NOV152018_START_TIME, NOV152018_START_TIME + 1 }

AnyNodeInit == Start /\ forkNov2018Time \in NodeForkTimes

AnyNodeSpec == AnyNodeInit /\ [][Next]_vars

(***************************************************************************)
(* The helpers on their own: create_checkdatasig_tx(count) on a wallet     *)
(* that holds nothing or one output of some amount, then the script's      *)
(* steps up to the registration, then spend_checkdatasig() called and its  *)
(* transaction submitted again and again until the call fails.             *)
(***************************************************************************)
\* the amounts, in satoshi, of the output the wallet holds: around the
\* 100000 at which value/100 meets the fee cap of 1000
Amounts == { 250, 100001, 300003, 500004, 700005 }

\* i holds the count handed to create_checkdatasig_tx
HelperInit ==
    /\ clock = StartClock
    /\ ticks = 0
    /\ mocktime = 0
    /\ forkNov2018Time = ForkNov2018Time
    /\ hashed = << Header(GenesisBlock) >>
    /\ chain = << GenesisBlock >>
    /\ chainstate \in { { } } \cup { { WalletCoin(amount) } : amount \in Amounts }
    /\ invalid = { }
    /\ mempool = { }
    /\ reorgQ = { }
    /\ toNode = << >>
    /\ fromNode = << >>
    /\ pc = "create_tx"
    /\ i \in 1..MaxCount
    /\ tx_hex = ToHex(CTransaction)
    /\ txid = None
    /\ spendable_checkdatasigs = << >>
    /\ tx0 = CTransaction
    /\ tx0_hex = ToHex(CTransaction)
    /\ tx0id = None
    /\ b = NoInstance.block
    /\ fork_block = NoInstance.block
    /\ nov152018forkblock = NoInstance.block
    /\ instance = NoInstance
    /\ polls = 0
    /\ failedAt = ""
    /\ poolLog = << >>
    /\ blockLog = << >>
    /\ spendLog = << >>

\* tx_hex = self.create_checkdatasig_tx(count)
CreateCount == CreateFundingAt("create_tx", i, "send_funding")

\* tx0 = spend_checkdatasig(); tx0_hex = ToHex(tx0), and its submission
SpendNext == SpendAt("spend", "submit")
SubmitNext == ExpectRejected("submit", "spend")

HelperNext ==
    \/ CreateCount
    \/ SendFunding
    \/ ConfirmFunding
    \/ Register
    \/ SpendNext
    \/ SubmitNext

HelperSpec == HelperInit /\ [][HelperNext]_vars

(***************************************************************************)
(* Properties.                                                             *)
(***************************************************************************)
\* the resolved test instances after which the driver resumes at step
Resolved(step) == { k \in DOMAIN blockLog : blockLog[k].resume = step }

\* the times of the last n blocks of the active chain
LastTimes(n) == [ k \in 1..n |-> chain[Len(chain) - n + k].nTime ]

\* C1: every submission of tx0 to the pending pool made while the median
\* time past of the tip is below the activation time is refused with RPC
\* code -26 and the message "16: mandatory-script-verify-flag-failed (Opcode
\* missing or not understood)" and leaves tx0 out of the pool; the driver
\* makes two of them, one before the run of blocks and one after it.
C1_PoolRejectsBeforeActivation ==
    /\ \A k \in DOMAIN poolLog :
        poolLog[k].mtp < NOV152018_START_TIME =>
            /\ poolLog[k].sent = tx0_hex
            /\ ~poolLog[k].result.ok
            /\ poolLog[k].result.code = -26
            /\ poolLog[k].result.message =
                  << "16: ", "mandatory-script-verify-flag-failed",
                     "(Opcode missing or not understood)" >>
            /\ ~poolLog[k].inPool
    /\ Len(poolLog) >= 1 =>
        /\ poolLog[1].mtp < NOV152018_START_TIME
        /\ poolLog[1].height = NumGenerated + NumConfirm
    /\ Len(poolLog) >= 2 =>
        /\ poolLog[2].mtp < NOV152018_START_TIME
        /\ poolLog[2].height = NumGenerated + NumConfirm + 6

C1_Witness ==
    /\ pc = "block_with_tx"
    /\ Len(poolLog) = 2
    /\ tx0_hex \notin mempool

\* C2: the block that carries tx0 on a tip whose median time past is one
\* below the activation time is rejected with code 16 and reason
\* bad-blk-signatures although its own time is not below the activation
\* time; the tip stays where it was, and the activating block built next
\* has the same parent, height and time and lacks only tx0.
C2_EarlyBlockRejected ==
    /\ \A k \in Resolved("fork_block") :
        LET e == blockLog[k]
        IN  /\ e.block.vtx = << Rehash(CreateCoinbase(e.height)), tx0 >>
            /\ e.parentMtp = NOV152018_START_TIME - 1
            /\ e.block.nTime >= NOV152018_START_TIME
            /\ e.answer.hash = e.block.sha256
            /\ e.answer.code = 16
            /\ e.answer.reason = << "bad-blk-signatures" >>
            /\ e.tip = e.block.hashPrevBlock
            /\ e.answer.tip = e.block.hashPrevBlock
    /\ \A k \in Resolved("check_mtp_after") :
        /\ k - 1 \in Resolved("fork_block")
        /\ blockLog[k].block.hashPrevBlock = blockLog[k - 1].block.hashPrevBlock
        /\ blockLog[k].block.nTime = blockLog[k - 1].block.nTime
        /\ blockLog[k].height = blockLog[k - 1].height + 1
        /\ blockLog[k - 1].block.vtx = Append(blockLog[k].block.vtx, tx0)
        /\ blockLog[k - 1].block = AddTx(hashed, blockLog[k].block, tx0)

C2_Witness ==
    /\ pc = "check_mtp_after"
    /\ Resolved("fork_block") # { }
    /\ Resolved("check_mtp_after") # { }
    /\ Tip(chain).hash = fork_block.sha256

\* C3: after the run of six accepted blocks, with times from one below the
\* activation time to four above it on top of the generated chain, the
\* median time past of the tip is the median of the last eleven block
\* times, one below the activation time; right after the activating block
\* it is the activation time.
C3_MedianTimePast ==
    /\ pc = "check_mtp_before" =>
        /\ LastTimes(6) = [ k \in 1..6 |-> NOV152018_START_TIME + k - 2 ]
        /\ \A k \in 1..5 : LastTimes(11)[k] < NOV152018_START_TIME - 1
        /\ MedianTime = NOV152018_START_TIME - 1
    /\ pc = "check_mtp_after" =>
        /\ Tip(chain).hash = fork_block.sha256
        /\ \A k \in 1..4 : LastTimes(11)[k] < NOV152018_START_TIME - 1
        /\ SubSeq(LastTimes(11), 5, 10) =
              [ k \in 1..6 |-> NOV152018_START_TIME + k - 2 ]
        /\ LastTimes(11)[11] > NOV152018_START_TIME + 4
        /\ MedianTime = NOV152018_START_TIME

C3_Witness ==
    /\ pc = "check_mtp_after"
    /\ MedianTime = NOV152018_START_TIME
    /\ Len(blockLog) = 8

\* C4: tx0 is refused by the pending pool at every step where the median
\* time past is below the activation time, also where the time of the tip
\* itself is not, and taken where it is not below; the driver expects just
\* that, and the first submission taken is the one right after the
\* activating block, the first block whose median time past reaches the
\* activation time.
C4_ActivationBoundary ==
    \A k \in DOMAIN poolLog :
        LET e == poolLog[k]
        IN  /\ e.result.ok <=> e.mtp >= NOV152018_START_TIME
            /\ e.expectReject <=> e.mtp < NOV152018_START_TIME
            /\ e.result.ok =>
                /\ e.mtpBelow < NOV152018_START_TIME
                /\ k > 1
                /\ poolLog[k - 1].height = e.height - 1
                /\ ~poolLog[k - 1].result.ok
                /\ poolLog[k - 1].mtp < NOV152018_START_TIME
                /\ poolLog[k - 1].tipTime >= NOV152018_START_TIME

C4_Witness ==
    /\ Len(poolLog) = 3
    /\ poolLog[3].result.ok
    /\ poolLog[2].tipTime >= NOV152018_START_TIME
    /\ ~poolLog[2].result.ok

\* C5: once the activating block is the tip, the transaction refused before
\* is taken by the pending pool and is in it; the next block, built on the
\* activating block with tx0 in it, is accepted and tx0 has left the pool.
C5_AcceptedAfterActivation ==
    /\ Len(poolLog) >= 3 =>
        /\ poolLog[3].tip = fork_block.sha256
        /\ poolLog[3].sent = poolLog[2].sent
        /\ ~poolLog[2].result.ok
        /\ poolLog[3].result.ok
        /\ poolLog[3].result.result = TxHash(tx0_hex)
        /\ poolLog[3].inPool
    /\ \A k \in Resolved("check_mined") :
        LET e == blockLog[k]
        IN  /\ e.block.hashPrevBlock = fork_block.sha256
            /\ e.block.vtx[Len(e.block.vtx)] = tx0
            /\ e.answer.tip = e.block.sha256
            /\ e.tip = e.block.sha256
            /\ ~e.inPool

C5_Witness ==
    /\ pc = "check_mined"
    /\ Resolved("check_mined") # { }
    /\ Tip(chain).hash = nov152018forkblock.sha256
    /\ tx0_hex \notin mempool

\* C6: after the block that carries tx0 was invalidated the tip is the
\* activating block again, with the activation time as median time past,
\* and tx0 comes back to the pending pool; the wait for it gives up only at
\* a moment when the node has not yet looked at all the reorg left over.
C6_ReappearsAfterInvalidate ==
    /\ [](pc = "wait_back" =>
            /\ nov152018forkblock.sha256 \in invalid
            /\ Tip(chain).hash = fork_block.sha256
            /\ MedianTime = NOV152018_START_TIME)
    /\ (pc = "wait_back") ~> (tx0id \in GetRawMempool(mempool))
    /\ [][(failedAt # "wait_back" /\ failedAt' = "wait_back") => reorgQ # { }]_vars

C6_Witness ==
    /\ pc = "invalidate_fork_block"
    /\ nov152018forkblock.sha256 \in invalid
    /\ Tip(chain).hash = fork_block.sha256
    /\ tx0id \in GetRawMempool(mempool)

\* C7: after the activating block was invalidated too the tip is the last
\* block of the run, with a median time past one below the activation
\* time, and tx0 leaves the pending pool; whenever the node has nothing left
\* to look at and the tip is below the activation time, tx0 is not in the
\* pool.
C7_EvictedAfterDeactivation ==
    /\ [](pc = "wait_gone" =>
            /\ fork_block.sha256 \in invalid
            /\ Tip(chain).nTime = NOV152018_START_TIME + 4
            /\ MedianTime = NOV152018_START_TIME - 1)
    /\ (pc = "wait_gone") ~> (tx0id \notin GetRawMempool(mempool))
    /\ [][(failedAt # "wait_gone" /\ failedAt' = "wait_gone") => reorgQ # { }]_vars
    /\ []((reorgQ = { } /\ MedianTime < NOV152018_START_TIME) =>
            TxHash(tx0_hex) \notin GetRawMempool(mempool))
    /\ [](pc = "done" => tx0id \notin GetRawMempool(mempool))

C7_Witness ==
    /\ pc = "done"
    /\ fork_block.sha256 \in invalid
    /\ MedianTime = NOV152018_START_TIME - 1
    /\ tx0id \notin GetRawMempool(mempool)
    /\ poolLog[3].inPool

\* C8 as stated: the block that carries tx0 too early and the activating
\* block both carry the activation time as their time.
C8_TimestampIsThreshold ==
    \A k \in Resolved("fork_block") \cup Resolved("check_mtp_after") :
        blockLog[k].block.nTime = NOV152018_START_TIME

\* C8: the block that carries tx0 too early and the activating block both
\* carry the activation time plus six as their time; the first is b, with
\* tx0 in it, and the second is fork_block, without it.
C8_TimestampIsThresholdPlusSix ==
    /\ \A k \in Resolved("fork_block") \cup Resolved("check_mtp_after") :
        blockLog[k].block.nTime = NOV152018_START_TIME + 6
    /\ \A k \in Resolved("fork_block") :
        /\ blockLog[k].block = b
        /\ tx0 \in Range(b.vtx)
    /\ \A k \in Resolved("check_mtp_after") :
        /\ blockLog[k].block = fork_block
        /\ tx0 \notin Range(fork_block.vtx)
        /\ fork_block.nTime = b.nTime

C8_Witness ==
    /\ Resolved("fork_block") # { }
    /\ Resolved("check_mtp_after") # { }
    /\ b.nTime = NOV152018_START_TIME + 6
    /\ fork_block.nTime = NOV152018_START_TIME + 6

\* C9 as stated: the funding transaction has 25 outputs and the tx0 tried
\* before activation spends its output 0.
C9_SpendsOutputZero ==
    tx0 # CTransaction =>
        /\ Len(tx_hex.vout) = 25
        /\ tx0.vin = << CTxIn(Rehash(FromHex(tx_hex)).sha256, 0) >>

\* C9: the funding transaction has 25 outputs and the tx0 tried before
\* activation spends its last output, the one of index 24; the first
\* submission to the pending pool sends this tx0 and expects the refusal.
C9_SpendsLastOutput ==
    /\ tx0 # CTransaction =>
        /\ Len(tx_hex.vout) = 25
        /\ tx0.vin = << CTxIn(Rehash(FromHex(tx_hex)).sha256, 24) >>
    /\ Len(poolLog) >= 1 =>
        /\ poolLog[1].sent = ToHex(tx0)
        /\ poolLog[1].expectReject

C9_Witness ==
    /\ pc = "setmocktime"
    /\ Len(poolLog) = 1
    /\ tx0.vin[1].prevout.n = 24
    /\ Len(spendable_checkdatasigs) = 24

\* C10: the rejection the driver expects of the pending pool and the one it
\* expects of the node for the block that carries tx0 differ in code and in
\* message: the first is code -26 with the "16: " opcode message, the second
\* code 16 with bad-blk-signatures, and neither message holds the other.
C10_DistinctRejections ==
    \A j \in DOMAIN poolLog : \A k \in Resolved("fork_block") :
        poolLog[j].expectReject =>
            /\ poolLog[j].expectCode = -26
            /\ poolLog[j].expectMessage =
                  << "16: ", "mandatory-script-verify-flag-failed",
                     "(Opcode missing or not understood)" >>
            /\ blockLog[k].code = 16
            /\ blockLog[k].reason = << "bad-blk-signatures" >>
            /\ ~blockLog[k].accept
            /\ poolLog[j].expectCode # blockLog[k].code
            /\ poolLog[j].expectMessage # blockLog[k].reason
            /\ ~IsInfix(blockLog[k].reason, poolLog[j].expectMessage)
            /\ ~IsInfix(poolLog[j].expectMessage, blockLog[k].reason)

C10_Witness ==
    /\ pc = "fork_block"
    /\ Len(poolLog) = 2
    /\ Resolved("fork_block") # { }
    /\ poolLog[2].expectCode = -26
    /\ blockLog[7].code = 16

\* the outpoint a logged call of spend_checkdatasig took
Popped(e) == e.before[Len(e.before)]

\* C11: every call of spend_checkdatasig that gets past its pop() removes
\* exactly one outpoint, the last, from the known spendable outputs, and the
\* transaction it returns has that outpoint as its only input; over the
\* calls no outpoint is taken twice, no two transactions have an input in
\* common, and the number of known outputs goes down by one for each call.
C11_AtMostOnceSpend ==
    /\ \A k \in DOMAIN spendLog :
        LET e == spendLog[k]
        IN  /\ Len(e.after) = Len(e.before) - 1
            /\ e.after = SubSeq(e.before, 1, Len(e.before) - 1)
            /\ Popped(e) \notin Range(e.after)
            /\ e.tx.vin = << CTxIn(Popped(e).tx.sha256, Popped(e).n) >>
            /\ k > 1 => e.before = spendLog[k - 1].after
    /\ \A j, k \in DOMAIN spendLog :
        j # k => /\ Popped(spendLog[j]) # Popped(spendLog[k])
                 /\ spendLog[j].tx.vin # spendLog[k].tx.vin
    /\ spendLog # << >> =>
        /\ spendable_checkdatasigs = spendLog[Len(spendLog)].after
        /\ Len(spendable_checkdatasigs) = Len(spendLog[1].before) - Len(spendLog)

C11_Witness ==
    /\ Len(spendLog) = 3
    /\ \A k \in 1..3 : spendLog[k].returned
    /\ spendable_checkdatasigs = << >>

C13_FailsWithoutOutputs ==
    /\ (chainstate = { } /\ pc # "create_tx") =>
        /\ pc = "failed"
        /\ failedAt = "create_tx"
        /\ tx_hex = ToHex(CTransaction)
        /\ txid = None
        /\ mempool = { }
        /\ toNode = << >>
        /\ poolLog = << >>
        /\ spendLog = << >>
    /\ (failedAt = "spend" /\ spendLog # << >>
            /\ spendLog[Len(spendLog)].returned) =>
        /\ pc = "failed"
        /\ spendable_checkdatasigs = << >>
        /\ spendLog[Len(spendLog)].after = << >>
        /\ tx0 = spendLog[Len(spendLog)].tx
        /\ Len(poolLog) = Len(spendLog)
        /\ poolLog[Len(poolLog)].sent = ToHex(tx0)
        /\ toNode = << >>
    /\ (pc = "spend" /\ spendable_checkdatasigs = << >>) =>
        Len(poolLog) = Len(spendLog)

C13_Witness ==
    /\ failedAt = "spend"
    /\ spendable_checkdatasigs = << >>
    /\ Len(spendLog) = 2
    /\ spendLog[2].returned
    /\ Len(poolLog) = 2

\* the blocks handed to the node whose outcome the driver has not seen
Outstanding == Len(toNode) + Len(fromNode)

\* C14: test instances are produced and resolved one at a time and in
\* order: at most one is outstanding, the driver is suspended at its yield
\* exactly while one is, so it builds no further block and makes none of
\* its checks of the node in between, and each answer it consumes is the
\* answer to the instance it yielded, no instance being resolved twice.
C14_InstancesInOrder ==
    /\ Outstanding <= 1
    /\ pc = "await" <=> Outstanding = 1
    /\ toNode # << >> => toNode = << BlockToWire(instance.block) >>
    /\ fromNode # << >> => fromNode[1].hash = instance.block.sha256
    /\ \A k \in DOMAIN blockLog :
        /\ blockLog[k].answer.hash = blockLog[k].block.sha256
        /\ \A j \in DOMAIN blockLog :
            j # k => blockLog[j].block.sha256 # blockLog[k].block.sha256
        /\ k > 1 => blockLog[k].height >= blockLog[k - 1].height
    /\ blockLog # << >> =>
        (pc = "await" \/ blockLog[Len(blockLog)].block = instance.block)

C14_Witness ==
    /\ pc = "await"
    /\ fromNode # << >>
    /\ Len(blockLog) = 7
    /\ instance.block = fork_block

\* the submission or the instance of a log entry did not end as expected
PoolMismatch(e) ==
    IF e.expectReject
    THEN ~RaisesRpcError(e.expectCode, e.expectMessage, e.result)
    ELSE ~e.result.ok
BlockMismatch(e) == ~OutcomeMatches(e, e.answer)

\* C15: a submission or an instance that does not end as expected, a
\* median time past that is not the expected one, a pool that does not hold
\* what it should and a wait that used up its polls each end the run at
\* that step; from then on the driver does nothing: no submission, no
\* block, no invalidation, and the step is not tried again.
C15_FailureAborts ==
    /\ [](\A k \in DOMAIN poolLog :
            PoolMismatch(poolLog[k]) =>
                /\ k = Len(poolLog)
                /\ pc = "failed"
                /\ failedAt = poolLog[k].step)
    /\ [](\A k \in DOMAIN blockLog :
            BlockMismatch(blockLog[k]) =>
                /\ k = Len(blockLog)
                /\ pc = "failed"
                /\ failedAt = blockLog[k].resume)
    /\ [](failedAt # "" <=> pc = "failed")
    /\ [](failedAt \in { "wait_back", "wait_gone" } =>
            polls = WaitTimeout * PollsPerUnit)
    /\ [][pc = "failed" =>
            /\ UNCHANGED << driverVars, logVars >>
            /\ UNCHANGED << toNode, chain, invalid, mocktime >>
            /\ mempool' \subseteq mempool \cup reorgQ]_vars

C15_Witness ==
    /\ pc = "failed"
    /\ failedAt = "send_tx0"
    /\ Len(poolLog) = 3
    /\ PoolMismatch(poolLog[3])
    /\ Len(blockLog) = 8

\* C16: a wait polls at most WaitTimeout * PollsPerUnit times after its
\* first look, each poll counted once, and it ends: with what it waits for
\* seen, or as a failure when the polls are used up.
C16_WaitTerminates ==
    /\ [](polls <= WaitTimeout * PollsPerUnit)
    /\ [][(pc \in { "wait_back", "wait_gone" } /\ pc' = pc /\ polls' # polls)
            => polls' = polls + 1]_vars
    /\ (pc = "wait_back") ~>
            (pc = "invalidate_fork_block" \/ failedAt = "wait_back")
    /\ (pc = "wait_gone") ~> (pc = "done" \/ failedAt = "wait_gone")
    /\ [](pc = "done" => tx0id \notin GetRawMempool(mempool))

C16_Witness ==
    /\ pc = "done"
    /\ polls = WaitTimeout * PollsPerUnit

\* the script activation is enabled below the tip when the submission is made
ActiveAt(e) == e.mtp >= NOV152018_START_TIME

\* C17 as stated: a submission of tx0's bytes ends as the earlier submission
\* of the same bytes did, with the same expectation of the driver.
C17_SameOutcomeAsEarlier ==
    \A j, k \in DOMAIN poolLog :
        (j < k /\ poolLog[j].sent = poolLog[k].sent) =>
            /\ poolLog[k].result = poolLog[j].result
            /\ poolLog[k].expectReject = poolLog[j].expectReject

\* C17: tx0 is built and serialized once and every submission sends those
\* bytes; what a submission returns, and what the driver expects of it,
\* depends on whether the median time past has reached the threshold and
\* not on how often the bytes were sent before: submissions on the same
\* side of activation end alike, a refused submission leaves the pool
\* without the transaction, and the outcome changes from refused to
\* accepted across activation.
C17_SameOutcomeSameActivation ==
    /\ \A k \in DOMAIN poolLog :
        /\ poolLog[k].sent = tx0_hex
        /\ poolLog[k].sent = ToHex(tx0)
        /\ poolLog[k].result.ok = ActiveAt(poolLog[k])
        /\ poolLog[k].expectReject = ~ActiveAt(poolLog[k])
        /\ poolLog[k].inPool = poolLog[k].result.ok
    /\ \A j, k \in DOMAIN poolLog :
        ActiveAt(poolLog[j]) = ActiveAt(poolLog[k]) =>
            /\ poolLog[k].result = poolLog[j].result
            /\ poolLog[k].expectReject = poolLog[j].expectReject

C17_Witness ==
    /\ Len(poolLog) = 3
    /\ poolLog[1].sent = poolLog[3].sent
    /\ poolLog[2].result = poolLog[1].result
    /\ ~poolLog[2].result.ok
    /\ poolLog[3].result.ok
    /\ ~poolLog[3].expectReject

\* the blocks the driver has passed to invalidateblock so far
Invalidated ==
    (IF \/ pc \in { "wait_back", "invalidate_fork_block", "wait_gone", "done" }
        \/ failedAt \in { "wait_back", "wait_gone" }
     THEN { nov152018forkblock } ELSE { })
    \cup
    (IF pc \in { "wait_gone", "done" } \/ failedAt = "wait_gone"
     THEN { fork_block } ELSE { })

\* the node if invalidateblock were called once more with block's hash
InvalidatedAgain(block) ==
    AfterInvalidate(chain, mempool, reorgQ, invalid,
                    ParseHex(FormatHex(block.sha256)))

Submitted ==
    { blockLog[k].block : k \in DOMAIN blockLog }
        \cup (IF pc = "await" THEN { instance.block } ELSE { })

\* the merkle root of block is the one of its transactions as they are, the
\* coinbase first, and its nonce solves the header that holds that root
FreshlySolved(block) ==
    /\ block.vtx # << >>
    /\ block.vtx[1].vin[1].scriptSig.kind = "coinbase"
    /\ block.hashMerkleRoot =
            [ k \in DOMAIN block.vtx |-> TxHash(ToHex(block.vtx[k])) ]
    /\ CheckProofOfWork(hashed, BlockToWire(block))
    /\ block.nNonce = Digest(hashed, PowInput(block))

\* C19: every block handed to the node as a test instance has, when it is
\* handed over, a merkle root over its transactions as they are, coinbase
\* first, and a nonce that solves the header with that root; the block that
\* add_tx appended tx0 to is no exception, and the node never answers that a
\* merkle root or a proof of work is wrong.
C19_FreshRootAndSolution ==
    /\ \A block \in Submitted : FreshlySolved(block)
    /\ \A k \in DOMAIN toNode : toNode[k] = BlockToWire(instance.block)
    /\ \A k \in DOMAIN blockLog :
        blockLog[k].answer.reason \notin
            { << "bad-txnmrklroot" >>, << "high-hash" >> }
    /\ \A k \in DOMAIN blockLog :
        (tx0 # CTransaction /\ blockLog[k].resume \in { "fork_block", "check_mined" })
            => /\ Len(blockLog[k].block.vtx) = 2
               /\ blockLog[k].block.vtx[2] = tx0
               /\ blockLog[k].block.hashMerkleRoot[2] = TxHash(tx0_hex)

C19_Witness ==
    /\ Len(blockLog) = 9
    /\ Len(blockLog[7].block.vtx) = 2
    /\ Len(blockLog[8].block.vtx) = 1
    /\ Len(blockLog[9].block.vtx) = 2
    /\ blockLog[9].answer.reason = << "ok" >>

\* the blocks the driver keeps for later use, once they are built
Kept == { b, fork_block, nov152018forkblock } \ { NoInstance.block }

\* the block the driver is about to pass, or has passed, to invalidateblock
ToInvalidate ==
    Invalidated
        \cup (IF pc = "invalidate_tx_block" THEN { nov152018forkblock } ELSE { })
        \cup (IF pc = "invalidate_fork_block" THEN { fork_block } ELSE { })

\* C20: a cached identity the driver uses is the identity of the contents
\* as they are and as the node got them: the hash of the funding
\* transaction in every registered output and in tx0's only input is the
\* hash of the bytes that were sent and the id the node returned; tx0's own
\* hash is the hash of the bytes submitted; the hash of a block kept by the
\* driver is the hash of its header as solved last, it is the hash the node
\* answered with, and the text passed to invalidateblock names the block
\* the node holds with these contents.
C20_NoStaleIdentity ==
    /\ \A k \in DOMAIN spendable_checkdatasigs :
        LET out == spendable_checkdatasigs[k]
        IN  /\ out.tx.sha256 = TxHash(ToHex(out.tx))
            /\ out.tx.sha256 = TxHash(tx_hex)
            /\ out.tx.sha256 = txid
    /\ tx0 # CTransaction =>
        /\ tx0.vin[1].prevout.hash = TxHash(tx_hex)
        /\ tx0.vin[1].prevout.hash = txid
        /\ \E coin \in Coins(SubSeq(chain, 1, NumGenerated + NumConfirm + 1)) :
                coin.outpoint = tx0.vin[1].prevout
        /\ tx0.sha256 = TxHash(ToHex(tx0))
        /\ tx0.sha256 = TxHash(tx0_hex)
        /\ tx0id # None => tx0id = tx0.sha256
    /\ \A block \in Kept :
        /\ block.sha256 = Digest(hashed, Header(block))
        /\ \A k \in DOMAIN blockLog :
            blockLog[k].block = block => blockLog[k].answer.hash = block.sha256
    /\ \A block \in ToInvalidate :
        LET named == ParseHex(FormatHex(block.sha256))
        IN  /\ named = Digest(hashed, Header(block))
            /\ \E k \in DOMAIN blockLog :
                /\ blockLog[k].block = block
                /\ blockLog[k].answer.hash = named
            /\ block \in Invalidated =>
                (named \in invalid /\ PositionOf(chain, named) = 0)
            /\ block \notin Invalidated =>
                /\ PositionOf(chain, named) > 0
                /\ chain[PositionOf(chain, named)].vtx = BlockToWire(block).vtx
                /\ chain[PositionOf(chain, named)].nTime = block.nTime

C20_Witness ==
    /\ pc = "invalidate_fork_block"
    /\ Invalidated = { nov152018forkblock }
    /\ ToInvalidate = { nov152018forkblock, fork_block }
    /\ Len(nov152018forkblock.vtx) = 2
    /\ nov152018forkblock.vtx[2].vin[1].prevout.hash = txid
    /\ tx0id = tx0.sha256

====
